---- MODULE Spec2Model ----
(***************************************************************************)
(* State-machine model of the ChessVermouth engine service:                *)
(*   EngineWorker (src/src/engineWorker.ts)  - one UCI subprocess driver   *)
(*   EnginePool   (src/unnamed/part_002)     - slots, wait queue, locks    *)
(*   GameManager  (src/src/gameManager.ts)   - gameId -> session registry  *)
(*   server glue  (src/src/api/schema.ts, src/dist/api/routes.js)          *)
(*                                                                         *)
(* JavaScript runs one task at a time, so one action is one run-to-        *)
(* suspension segment of a handler: the code from one await (or event)     *)
(* up to the next await that really suspends.  An await on a promise that  *)
(* is already settled only yields to the microtask queue, which drains     *)
(* before any timer, line or exit event, so it does not end a segment.     *)
(***************************************************************************)
EXTENDS Integers, Sequences, FiniteSets, TLC

\* ---------------------------------------------------------------- bounds
MaxPool  == 2      \* pool sizes 1..MaxPool are explored
MaxOps   == 5      \* runExclusive calls per behaviour
MaxChain == 3      \* runExclusive calls per behaviour on one chain
MaxCalls == 2      \* runExclusive calls per behaviour when hazards are on
MaxTasks == 3      \* acquire calls per behaviour
MaxExits == 1      \* spontaneous subprocess exits per behaviour
MaxMpv   == 2      \* multi-PV values 1..MaxMpv
MaxGames == 2      \* game ids 1..MaxGames
MaxMoves == 2      \* moves per session, plies per review
MaxCp    == 80     \* centipawn scores -MaxCp..MaxCp
MaxMate  == 3      \* mate scores -MaxMate..MaxMate
MaxInfo  == 4      \* lines the engine prints during one search
MaxDepth == 2      \* depths 1..MaxDepth of a progress line
MaxSize  == 10     \* configured pool sizes 0..MaxSize
MaxCores == 20     \* core counts 0..MaxCores
MaxDistance == 100 \* mate distances -MaxDistance..MaxDistance when normalized

\* ------------------------------------------------------ program constants
DefaultMultiPv == 2

GameIds   == 1..MaxGames
MpvValues == 1..MaxMpv
SlotIds   == 0..(MaxPool - 1)
OpIds     == 1..MaxOps
TaskIds   == 1..MaxTasks
PoolInitOp == 0            \* the context of EnginePool.init, outside any chain
StopAllCtx == 0 - 1        \* the context of EnginePool.stopAll

VARIABLES
  pool,      \* EnginePool: init progress, size, workers pushed, ghost counters
  workers,   \* slot id -> WorkerWrapper with its EngineWorker and subprocess
  queue,     \* EnginePool.queue: waiting acquire calls (task ids), FIFO
  locks,     \* slot id -> the runExclusive calls chained on it, in call order
  ops,       \* op id -> one runExclusive call (and op 0: pool init)
  tasks,     \* task id -> one caller that acquires a slot
  games,     \* GameManager.games
  env,       \* environment: exits so far, shutdown phase, cap on calls
  reply,     \* the outcome of the latest synchronous registry call
  review,    \* task id -> the game-review pass that task runs
  calc       \* arguments and result of the latest pure computation

back == <<reply, review, calc>>
vars == <<pool, workers, queue, locks, ops, tasks, games, env, reply, review, calc>>

\* ------------------------------------------------------------ EngineWorker
NoWrite == [cmd |-> "none", by |-> 0 - 2, inChain |-> FALSE]

\* new EngineWorker(config) wrapped as { id, worker, allocated: false };
\* owed/sentMultiPv/lastWrite describe the subprocess side of the pipe,
\* holders is the set of callers acquire has handed the slot to.
NewWorker ==
  [ child          |-> FALSE,
    allocated      |-> FALSE,
    readyPromise   |-> "unset",
    currentMultiPv |-> DefaultMultiPv,
    sentMultiPv    |-> 0,
    lineListeners  |-> <<>>,
    timers         |-> {},
    owed           |-> <<>>,
    lastWrite      |-> NoWrite,
    holders        |-> {} ]

NoOp ==
  [ kind |-> "none", slot |-> 0, pc |-> "unused", cont |-> "none",
    mpv |-> 0, prev |-> 0, sig |-> "none", abortL |-> FALSE,
    saved |-> "none", err |-> "none",
    inherited |-> FALSE, abortedAt |-> "none",
    stopW |-> FALSE, mpvSettle |-> 0, sentSettle |-> 0 ]

NoTask ==
  [ kind |-> "none", gid |-> 0, pc |-> "unused", slot |-> 0, op |-> 0,
    ticket |-> 0, fen |-> "none" ]

\* The lines a UCI engine owes in answer to a command.
Response(cmd) ==
  CASE cmd = "uci"     -> <<"uciok">>
    [] cmd = "isready" -> <<"readyok">>
    [] cmd = "go"      -> <<"bestmove">>
    [] OTHER           -> <<>>

\* EngineWorker.write with a live child (callers test w.child first, as the
\* child cannot change inside a segment).  wr names the writer and whether it
\* is the operation currently executing in the slot's chain.
write(w, cmd, wr) ==
  [w EXCEPT !.owed = @ \o Response(cmd),
            !.lastWrite = [cmd |-> cmd, by |-> wr.by, inChain |-> wr.inChain]]

\* waitForLine: push the handler, arm the timeout.
waitForLine(w, id, kind) ==
  [w EXCEPT !.lineListeners = Append(@, <<id, kind>>),
            !.timers = @ \cup {id}]

\* A cleanup that leaves infoListener in lineListeners.
cleanup_KeepInfo(w, id) ==
  [w EXCEPT !.lineListeners =
              SelectSeq(@, LAMBDA l : l[1] # id \/ l[2] = "info"),
            !.timers = @ \ {id}]

\* cleanup of waitForLine / of analyze: clear the timer, splice the
\* listeners of this wait out of lineListeners.
cleanup(w, id) ==
  [w EXCEPT !.lineListeners = SelectSeq(@, LAMBDA l : l[1] # id),
            !.timers = @ \ {id}]

\* The call has settled: remember the driver's multi-PV at that moment.
Settle(st, outcome) ==
  [st EXCEPT !.o.pc = IF outcome = "ok" THEN "done" ELSE "failed",
             !.o.err = IF outcome = "ok" THEN "none" ELSE outcome,
             !.o.mpvSettle = st.w.currentMultiPv,
             !.o.sentSettle = st.w.sentMultiPv]

\* configure({MultiPV: v}) past its `if (!this.child)` guard.
ConfigureBody(st, id, wr, v, cont) ==
  LET w1 == [st.w EXCEPT !.currentMultiPv = v]
      w2 == [write(w1, "setoption", wr) EXCEPT !.sentMultiPv = v]
      w3 == waitForLine(write(w2, "isready", wr), id, "readyok")
  IN  [w |-> w3, o |-> [st.o EXCEPT !.pc = "readyok", !.cont = cont]]

\* init() when there is no child: spawnProcess, waitForReady, configure.
InitBody(st, id, wr, cont) ==
  LET w1  == [st.w EXCEPT !.child = TRUE, !.owed = <<>>, !.sentMultiPv = 0]
      st1 == [st EXCEPT !.w = w1]
  IN  CASE w1.readyPromise = "resolved" ->
             ConfigureBody(st1, id, wr, DefaultMultiPv, cont)
        [] w1.readyPromise = "unset" ->
             [w |-> waitForLine(write([w1 EXCEPT !.readyPromise = "pending"],
                                      "uci", wr), id, "uciok"),
              o |-> [st.o EXCEPT !.pc = "uciok", !.cont = cont]]
        [] OTHER -> Settle(st1, "ReadyTimeout")

\* analyze from `new Promise` to the write of go.
SearchStart(st, id, wr) ==
  LET w1 == write(st.w, "position", wr)
      w2 == [waitForLine(w1, id, "bestmove") EXCEPT
               !.lineListeners = Append(@, <<id, "info">>)]
      w3 == write(w2, "go", wr)
  IN  [w |-> w3,
       o |-> [st.o EXCEPT !.pc = "search", !.abortL = (st.o.sig # "none")]]

\* An analyze that does not look at signal.aborted.
AnalyzeStart_NoCheck(st, id, wr) ==
  LET st1 == [st EXCEPT !.o.prev = st.w.currentMultiPv]
  IN  IF st.o.mpv # 0 /\ st.o.mpv # st.w.currentMultiPv
      THEN ConfigureBody(st1, id, wr, st.o.mpv, "search")
      ELSE SearchStart(st1, id, wr)

\* analyze up to its first suspension.
AnalyzeStart(st, id, wr) ==
  IF st.o.sig = "aborted" THEN Settle(st, "Aborted")
  ELSE LET st1 == [st EXCEPT !.o.prev = st.w.currentMultiPv]
       IN  IF st.o.mpv # 0 /\ st.o.mpv # st.w.currentMultiPv
           THEN ConfigureBody(st1, id, wr, st.o.mpv, "search")
           ELSE SearchStart(st1, id, wr)

\* bestMovePromise.finally(...): restore the previous multi-PV, then let the
\* outcome of the search through.
Finally(st, id, wr, outcome) ==
  IF st.o.mpv # 0 /\ st.o.prev # st.o.mpv
  THEN LET st1 == [st EXCEPT !.o.saved = outcome]
       IN  IF ~st.w.child THEN InitBody(st1, id, wr, "restoreBody")
           ELSE ConfigureBody(st1, id, wr, st.o.prev, "settle")
  ELSE Settle(st, outcome)

\* fn(wrapper.worker): the operation passed to runExclusive.
StartFn(st, id, wr) ==
  CASE st.o.kind = "newGame" ->
         [w |-> waitForLine(write(write(st.w, "ucinewgame", wr), "isready", wr),
                            id, "readyok"),
          o |-> [st.o EXCEPT !.pc = "readyok", !.cont = "ret"]]
    [] st.o.kind = "ping" ->
         [w |-> waitForLine(write(st.w, "isready", wr), id, "readyok"),
          o |-> [st.o EXCEPT !.pc = "readyok", !.cont = "ret"]]
    [] st.o.kind = "configure" ->
         ConfigureBody(st, id, wr, st.o.mpv, "ret")
    [] OTHER -> AnalyzeStart(st, id, wr)

\* The awaited line arrived (the listener has run its cleanup).
OnLine(st, id, wr) ==
  CASE st.o.pc = "uciok" ->
         [w |-> waitForLine(write(st.w, "isready", wr), id, "readyok"),
          o |-> [st.o EXCEPT !.pc = "hs_readyok"]]
    [] st.o.pc = "hs_readyok" ->
         ConfigureBody([st EXCEPT !.w.readyPromise = "resolved"], id, wr,
                       DefaultMultiPv, st.o.cont)
    [] st.o.pc = "search" -> Finally(st, id, wr, "ok")
    [] st.o.pc = "readyok" /\ st.o.cont = "fn" -> StartFn(st, id, wr)
    [] st.o.pc = "readyok" /\ st.o.cont = "restoreBody" ->
         ConfigureBody(st, id, wr, st.o.prev, "settle")
    [] st.o.pc = "readyok" /\ st.o.cont = "search" -> SearchStart(st, id, wr)
    [] st.o.pc = "readyok" /\ st.o.cont = "settle" -> Settle(st, st.o.saved)
    [] st.o.pc = "readyok" /\ st.o.cont = "push" -> [st EXCEPT !.o.pc = "idle"]
    [] OTHER -> Settle(st, "ok")

\* The timer of the wait fired (it has run its cleanup).
OnTimeout(st, id, wr) ==
  CASE st.o.pc = "search" -> Finally(st, id, wr, "SearchTimeout")
    [] st.o.pc \in {"uciok", "hs_readyok"} ->
         Settle([st EXCEPT !.w.readyPromise = "rejected"], "ReadyTimeout")
    [] OTHER -> Settle(st, "ReadyTimeout")

\* onAbort: cleanup, write('stop'), reject.  write throws inside the event
\* handler when the child is gone, and reject is then never reached.
OnAbort(st, id, wr) ==
  LET st1 == [st EXCEPT !.w = cleanup(st.w, id), !.o.abortL = FALSE]
  IN  IF ~st.w.child THEN st1
      ELSE Finally([st1 EXCEPT !.w = write(st1.w, "stop", wr),
                               !.o.stopW = TRUE], id, wr, "Aborted")

\* -------------------------------------------------------------- EnginePool
\* this.workers: the wrappers pushed so far.
Slots == {s \in SlotIds : s < pool.n}

Settled(id) == ops[id].pc \in {"done", "failed"}

\* nextLock of a call: resolveLock after fn returned, rejectLock(error) in
\* the catch block.
NextLock(id) ==
  IF ops[id].pc = "done" THEN <<"resolved", "none">>
  ELSE IF ops[id].pc = "failed" THEN <<"rejected", ops[id].err>>
  ELSE <<"pending", "none">>

\* A pool without a chain: every call finds a resolved promise.
LockChain_NoWait(ch, k) == <<"resolved", "none">>

\* A chain that only ever holds the lock of the first call on the slot.
LockChain_First(ch, k) ==
  IF k = 0 THEN <<"resolved", "none">> ELSE NextLock(ch[1])

\* The promise stored by this.locks.set(id, previous.then(() => nextLock))
\* after the first k calls on a slot: then() passes a rejection of previous
\* on without running the callback, and otherwise adopts nextLock.  The
\* finally block never deletes the entry, since the stored promise is the
\* then() promise and never nextLock itself.
RECURSIVE LockChain(_, _)
LockChain(ch, k) ==
  IF k = 0 THEN <<"resolved", "none">>
  ELSE LET p == LockChain(ch, k - 1)
       IN  IF p[1] # "resolved" THEN p ELSE NextLock(ch[k])

ChainIndex(id) ==
  CHOOSE k \in 1..Len(locks[ops[id].slot]) : locks[ops[id].slot][k] = id

\* A call that does not await the promise it chained behind.
Previous_Resolved(id) == <<"resolved", "none">>

\* A pool with one chain for all slots: a call on another slot than 0 waits
\* for everything that was called on slot 0.
Previous_Shared(id) ==
  IF ops[id].slot = 0 THEN LockChain(locks[0], ChainIndex(id) - 1)
  ELSE LockChain(locks[0], Len(locks[0]))

\* `previous` of a call: what locks.get(id) held when it was made.
Previous(id) == LockChain(locks[ops[id].slot], ChainIndex(id) - 1)

\* The call is the one its slot's chain is currently running.
InChain(id) ==
  /\ id \in OpIds
  /\ ops[id].kind # "none"
  /\ ~Settled(id)
  /\ \A j \in 1..(ChainIndex(id) - 1) : Settled(locks[ops[id].slot][j])

Writer(id) == [by |-> id, inChain |-> InChain(id)]

Executing(id) ==
  ops[id].kind # "none" /\ ops[id].pc \notin {"unused", "awaitPrev", "done", "failed"}

FreeOps == {id \in OpIds : ops[id].kind = "none"}
UsedOps == Cardinality(OpIds \ FreeOps)
NextOpId == CHOOSE id \in FreeOps : \A j \in FreeOps : id <= j
FreeTasks == {t \in TaskIds : tasks[t].kind = "none"}
NextTaskId == CHOOSE t \in FreeTasks : \A j \in FreeTasks : t <= j

\* A lookup that ignores the allocated flag.
getIdleWorker_Any ==
  IF Slots = {} THEN 0 - 1 ELSE CHOOSE s \in Slots : \A j \in Slots : s <= j

\* getIdleWorker: workers.find((w) => !w.allocated), -1 for undefined.
getIdleWorker ==
  LET idle == {s \in Slots : ~workers[s].allocated}
  IN  IF idle = {} THEN 0 - 1
      ELSE CHOOSE s \in idle : \A j \in idle : s <= j

\* A release that hands the slot to the newest waiter (queue.pop()).
release_Lifo(id, t) ==
  LET freed == [workers EXCEPT ![id].allocated = FALSE,
                               ![id].holders = @ \ {t}]
  IN  IF queue = <<>>
      THEN [workers |-> freed, queue |-> queue, tasks |-> tasks, pool |-> pool]
      ELSE LET next == queue[Len(queue)]
           IN  [workers |-> [freed EXCEPT ![id].allocated = TRUE,
                                          ![id].holders = @ \cup {next}],
                queue   |-> SubSeq(queue, 1, Len(queue) - 1),
                tasks   |-> [tasks EXCEPT ![next].pc = "granted",
                                          ![next].slot = id],
                pool    |-> [pool EXCEPT !.lastGranted = tasks[next].ticket]]

\* A release that frees the wrapper and leaves the queue alone.
release_NoHandOff(id, t) ==
  [workers |-> [workers EXCEPT ![id].allocated = FALSE,
                               ![id].holders = @ \ {t}],
   queue |-> queue, tasks |-> tasks, pool |-> pool]

\* A release that leaves the wrapper allocated to its holder.
release_Keep(id, t) ==
  [workers |-> workers, queue |-> queue, tasks |-> tasks, pool |-> pool]

\* release(id) called by holder t: free the wrapper, then hand it to the
\* head of the queue.  Yields the new workers, queue, tasks and pool.
release(id, t) ==
  LET freed == [workers EXCEPT ![id].allocated = FALSE,
                               ![id].holders = @ \ {t}]
  IN  IF queue = <<>>
      THEN [workers |-> freed, queue |-> queue, tasks |-> tasks, pool |-> pool]
      ELSE LET next == Head(queue)
           IN  [workers |-> [freed EXCEPT ![id].allocated = TRUE,
                                          ![id].holders = @ \cup {next}],
                queue   |-> Tail(queue),
                tasks   |-> [tasks EXCEPT ![next].pc = "granted",
                                          ![next].slot = id],
                pool    |-> [pool EXCEPT !.lastGranted = tasks[next].ticket]]

\* locks.get(id) ?? Promise.resolve()
locksGet(s) == LockChain(locks[s], Len(locks[s]))

\* runExclusive after `await previous` gave prev: rethrow a rejected
\* previous; else await worker.init() and call fn.
AwaitPrevious(st, id, wr, prev) ==
  IF prev[1] = "rejected"
  THEN Settle([st EXCEPT !.o.inherited = TRUE], prev[2])
  ELSE IF st.w.child THEN StartFn(st, id, wr)
       ELSE InitBody(st, id, wr, "fn")

\* runExclusive(s, fn) from its call to its first suspension: chain nextLock
\* behind previous, and go on at once when previous is already settled.
\* Yields the new ops, locks and workers.
runExclusive(kind, s, mpv, sig) ==
  LET id   == NextOpId
      prev == locksGet(s)
      wr   == [by |-> id,
               inChain |-> \A j \in 1..Len(locks[s]) : Settled(locks[s][j])]
      st0  == [w |-> workers[s],
               o |-> [NoOp EXCEPT !.kind = kind, !.slot = s, !.pc = "awaitPrev",
                                  !.mpv = mpv, !.sig = sig]]
      st   == IF prev[1] = "pending" THEN st0
              ELSE AwaitPrevious(st0, id, wr, prev)
  IN  [ops     |-> [ops EXCEPT ![id] = st.o],
       locks   |-> [locks EXCEPT ![s] = Append(@, id)],
       workers |-> [workers EXCEPT ![s] = st.w]]

\* What a segment of call id on slot s leaves behind.
Apply(s, id, st) ==
  /\ workers' = [workers EXCEPT ![s] = st.w]
  /\ ops' = [ops EXCEPT ![id] = st.o]
  /\ pool' = IF id # PoolInitOp THEN pool
             ELSE IF st.o.pc = "idle" THEN [pool EXCEPT !.n = @ + 1]
             ELSE IF st.o.pc = "failed" THEN [pool EXCEPT !.pc = "failed"]
             ELSE pool

RemoveAt(q, i) == SubSeq(q, 1, i - 1) \o SubSeq(q, i + 1, Len(q))

\* ------------------------------------------------------------- pool size
SizeCap == 8

Min(a, b) == IF a < b THEN a ELSE b
Max(a, b) == IF a > b THEN a ELSE b

\* config.poolSize: a number, or undefined.
Given(v) == [given |-> TRUE, value |-> v]
Undefined == [given |-> FALSE, value |-> 0]

\* A size computation without the cap.
poolSize_NoCap(cfg, cpuCount) ==
  IF cfg.given THEN cfg.value ELSE Max(1, cpuCount \div 2)

\* Math.min(config.poolSize ?? Math.max(1, Math.floor(cpuCount / 2)), 8)
poolSize(cfg, cpuCount) ==
  Min(IF cfg.given THEN cfg.value ELSE Max(1, cpuCount \div 2), SizeCap)

\* EnginePool.init before its first statement: config.poolSize, the length
\* of os.cpus(), the wrappers pushed so far.
NewPool(cfg, cpuCount) ==
  [fn |-> "init", cfg |-> cfg, cpuCount |-> cpuCount, pc |-> "start",
   size |-> 0, workers |-> <<>>]

\* --------------------------------------------------------- scores, review
MateBase == 100000
MateStep == 1000

Absent == [type |-> "absent", value |-> 0]
Cp(v) == [type |-> "cp", value |-> v]
Mate(v) == [type |-> "mate", value |-> v]

\* What a Score | undefined may be.
Scores ==
  {Absent} \cup {Cp(v) : v \in (0 - MaxCp)..MaxCp}
           \cup {Mate(v) : v \in (0 - MaxMate)..MaxMate}

Abs(n) == IF n < 0 THEN 0 - n ELSE n

\* A normalization that gives every mate the same magnitude.
scoreToNumber_Flat(score) ==
  IF score.type = "cp" THEN score.value
  ELSE (IF score.value > 0 THEN 1 ELSE 0 - 1) * MateBase

\* scoreToNumber of a score that is present.
scoreToNumber(score) ==
  IF score.type = "cp" THEN score.value
  ELSE (IF score.value > 0 THEN 1 ELSE 0 - 1)
         * (MateBase - Abs(score.value) * MateStep)

\* An inversion that always yields a value at or below zero.
invertScore_Down(score) ==
  IF score.type = "absent" THEN Absent
  ELSE [type |-> score.type, value |-> 0 - Abs(score.value)]

\* An inversion that hands the score back as it came.
invertScore_Keep(score) == score

\* invertScore
invertScore(score) ==
  IF score.type = "absent" THEN Absent
  ELSE [type |-> score.type, value |-> 0 - score.value]

isMateDrop(before, after) ==
  IF before.type = "mate" /\ before.value > 0
  THEN IF after.type # "mate" THEN TRUE ELSE after.value > before.value
  ELSE FALSE

\* A classify whose thresholds are exclusive.
classify_Exclusive(before, after) ==
  IF before.type = "absent" \/ after.type = "absent" THEN "good"
  ELSE IF isMateDrop(before, after) THEN "blunder"
  ELSE LET drop == scoreToNumber(before) - scoreToNumber(after)
       IN  IF drop > 150 THEN "blunder"
           ELSE IF drop > 80 THEN "mistake"
           ELSE IF drop > 30 THEN "inaccuracy"
           ELSE "good"

classify(before, after) ==
  IF before.type = "absent" \/ after.type = "absent" THEN "good"
  ELSE IF isMateDrop(before, after) THEN "blunder"
  ELSE LET drop == scoreToNumber(before) - scoreToNumber(after)
       IN  IF drop >= 150 THEN "blunder"
           ELSE IF drop >= 80 THEN "mistake"
           ELSE IF drop >= 30 THEN "inaccuracy"
           ELSE "good"

\* The moves chess.history() yields for the PGN of a review request, and
\* the PGNs a caller may send: the first n plies of one game.
GameLine == [i \in 1..MaxMoves |-> IF i % 2 = 1 THEN "e2e4" ELSE "e7e5"]
ReviewGames == {SubSeq(GameLine, 1, n) : n \in 0..MaxMoves}

\* The LineEvaluations a search may return, by ascending rank: the first
\* move of the pv ("none" for an empty pv) and the score, which a progress
\* line need not carry.
PvHeads == {"e2e4", "e7e5", "none"}
LineScores == {Absent, Cp(40), Cp(0 - 40), Mate(1)}
LineValues == {[pv0 |-> h, score |-> sc] : h \in PvHeads, sc \in LineScores}
AnalysisLines ==
  UNION {[1..n -> LineValues] : n \in 0..MaxMpv}

\* analysis.lines[0]?.score
topScore(lines) == IF Len(lines) = 0 THEN Absent ELSE lines[1].score

\* analysis.lines[0]?.pv[0]
topMove(lines) == IF Len(lines) = 0 THEN "none" ELSE lines[1].pv0

\* A lookup that yields the last line that starts with the played move.
find_Last(lines, playedUci) ==
  LET hits == {k \in 1..Len(lines) : lines[k].pv0 = playedUci}
  IN  IF hits = {} THEN 0 ELSE CHOOSE k \in hits : \A j \in hits : k >= j

\* analysis.lines.find((line) => line.pv[0] === playedUci): its rank, 0 when
\* no line starts with the played move.
find(lines, playedUci) ==
  LET hits == {k \in 1..Len(lines) : lines[k].pv0 = playedUci}
  IN  IF hits = {} THEN 0 ELSE CHOOSE k \in hits : \A j \in hits : k <= j

NoPending ==
  [scoreBefore |-> Absent, top |-> "none", hit |-> "none", hitScore |-> Absent]

\* What the holder of a slot does with it: the calls made on the pool (op
\* ids, in call order) and, for a review pass, the moves of its PGN,
\* payload.multipv, the report so far, what the before-move search of the
\* current ply gave and the number of releases.
NoReview ==
  [moves |-> <<>>, mpv |-> 0, report |-> <<>>, pending |-> NoPending,
   calls |-> <<>>, rel |-> 0]

\* The PlyReport pushed for the current ply.  top is the first move of the
\* top line of the before-move search; searches, hit, hitScore, afterTop
\* and afterMpv record how scoreAfter was obtained.
PlyReport(rv, scoreAfter, searches, afterTop, afterMpv) ==
  [ply            |-> Len(rv.report) + 1,
   played         |-> rv.moves[Len(rv.report) + 1],
   scoreBefore    |-> rv.pending.scoreBefore,
   scoreAfter     |-> scoreAfter,
   classification |-> classify(rv.pending.scoreBefore, scoreAfter),
   top            |-> rv.pending.top,
   searches       |-> searches,
   hit            |-> rv.pending.hit,
   hitScore       |-> rv.pending.hitScore,
   afterTop       |-> afterTop,
   afterMpv       |-> afterMpv]

\* A push that puts the new report in front.
reportPush_Front(rv, entry) ==
  [rv EXCEPT !.report = <<entry>> \o @, !.pending = NoPending]

\* report.push({...})
reportPush(rv, entry) ==
  [rv EXCEPT !.report = Append(@, entry), !.pending = NoPending]

\* The largest centipawn value a mate score is required to stay above.
CpLimit == 10000

\* Scores over the whole range of mate distances, with centipawn values at
\* and around zero and at the limit.
WideScores ==
  {Mate(v) : v \in (0 - MaxDistance)..MaxDistance}
    \cup {Cp(v) : v \in {0 - CpLimit, 0 - 1, 0, 1, CpLimit}}

\* Two scores to normalize and to invert, nothing computed yet.
NewScores(a, b) ==
  [fn |-> "scores", a |-> a, b |-> b, normalized |-> FALSE, na |-> 0,
   nb |-> 0, inverted |-> FALSE, inv |-> a, inv2 |-> a, ninv |-> 0]

\* ------------------------------------------------- one search, line by line
\* The lines the engine may print while a search listens.  A progress line:
\* its multipv token (0 when it has none), depth, first pv move ("none" when
\* it has no pv) and score.  A best-move line: its second token ("none" when
\* missing) and the token after `ponder` ("none" when there is none).
InfoLines ==
  {[kind |-> "info", multipv |-> r, depth |-> d, pv0 |-> h, score |-> sc] :
     r \in 0..MaxMpv, d \in 1..MaxDepth, h \in {"e2e4", "none"},
     sc \in {Absent, Cp(40)}}
BestMoveLines ==
  {[kind |-> "bestmove", bestmove |-> b, ponder |-> q] :
     b \in {"e2e4", "none"}, q \in {"e7e5", "none"}}
OtherLine == [kind |-> "other"]

\* infoListener's evaluation of a progress line: parsed.multipv ?? 1.
evaluation(line) ==
  [multipv |-> IF line.multipv = 0 THEN 1 ELSE line.multipv,
   depth |-> line.depth, pv0 |-> line.pv0, score |-> line.score]

\* A map that keeps the first value stored under a key.
linesSet_KeepFirst(lines, ev) ==
  IF \E k \in 1..Len(lines) : lines[k].multipv = ev.multipv
  THEN lines ELSE Append(lines, ev)

\* lines.set(multipvIndex, evaluation) on a Map held as its values in
\* insertion order: a key already present keeps its place.
linesSet(lines, ev) ==
  IF \E k \in 1..Len(lines) : lines[k].multipv = ev.multipv
  THEN [k \in 1..Len(lines) |->
          IF lines[k].multipv = ev.multipv THEN ev ELSE lines[k]]
  ELSE Append(lines, ev)

\* Array.from(lines.values()).sort((a, b) => a.multipv - b.multipv)
RECURSIVE sorted(_)
sorted(lines) ==
  IF lines = <<>> THEN <<>>
  ELSE LET k == CHOOSE k \in 1..Len(lines) :
                  \A j \in 1..Len(lines) :
                    \/ lines[k].multipv < lines[j].multipv
                    \/ lines[k].multipv = lines[j].multipv /\ k <= j
       IN  <<lines[k]>> \o sorted(RemoveAt(lines, k))

\* A search that listens: the lines received, the Map, no result yet.
NoResult == [bestmove |-> "none", ponder |-> "none", lines |-> <<>>]
NewSearch ==
  [fn |-> "analyze", seen |-> <<>>, lines |-> <<>>, done |-> FALSE,
   res |-> NoResult]

\* ------------------------------------------------------------- GameManager
\* Starting positions a caller may pass: none, one chess.js parses (the
\* standard starting position), one it does not.
Fens == {"none", "parseable", "unparseable"}

\* Moves a caller may pass, all of the shape moveSchema accepts.
UciMoves == {"e2e4", "e7e5", "e2e5"}

\* chess.move(uciToMove(m)) on the board reached by `moves` from the starting
\* position: e2e4 is legal for White's first move, e7e5 for Black's answer,
\* e2e5 never.  TRUE when the move is made, FALSE when move() yields nothing.
chessMove(moves, m) ==
  \/ moves = <<>> /\ m = "e2e4"
  \/ moves = <<"e2e4">> /\ m = "e7e5"

\* applyMovesToChess: TRUE when the stored history replays without a throw.
applyMovesToChess(moves) ==
  \A i \in 1..Len(moves) : chessMove(SubSeq(moves, 1, i - 1), moves[i])

\* A rules engine that accepts every string.
validateFen_Any(fen) == TRUE

\* validateFen: TRUE when `new Chess(fen)` does not throw.
validateFen(fen) == fen # "unparseable"

\* Nothing computed yet.
NoCalc == [fn |-> "none"]

NoReply == [call |-> "none", gid |-> 0, arg |-> "none", err |-> "none"]

\* A synchronous throw of the registry reaching its caller.
Throw(call, g, arg, err) ==
  [call |-> call, gid |-> g, arg |-> arg, err |-> err]

\* The response a route sends for pool call id: its error message ("none"
\* on success) and the HTTP status.
Http(id, err, status) ==
  [call |-> "http", gid |-> id, arg |-> err, err |-> status]

\* handleError(res, error): res.status(400) for every error.
handleError(err) == "400"

\* The catch block of GET /health: res.status(503) for every error.
healthError(err) == "503"

\* res.json(...) without res.status(...)
Ok == "200"

\* startGame without its games.has test.
startGameCheck_NoHas(g, fen) ==
  IF fen # "none" /\ ~validateFen(fen) THEN "Invalid FEN" ELSE "ok"

\* startGame before its first await: the error it throws, or "ok".
startGameCheck(g, fen) ==
  IF g \in DOMAIN games THEN "Game already exists"
  ELSE IF fen # "none" /\ ~validateFen(fen) THEN "Invalid FEN"
  ELSE "ok"

\* getGame: the error it throws, or "ok".
getGame(g) == IF g \in DOMAIN games THEN "ok" ELSE "Game not found"

\* addMove without the test of what chess.move returned.
addMoveCheck_NoRules(g, m) ==
  IF getGame(g) # "ok" THEN getGame(g)
  ELSE IF ~applyMovesToChess(games[g].moves) THEN "Illegal move in history"
  ELSE "ok"

\* addMove before its push: the error it throws, or "ok".
addMoveCheck(g, m) ==
  IF getGame(g) # "ok" THEN getGame(g)
  ELSE IF ~applyMovesToChess(games[g].moves) THEN "Illegal move in history"
  ELSE IF ~chessMove(games[g].moves, m) THEN "Illegal move"
  ELSE "ok"

\* A push that puts the move in front of the history (unshift).
push_Front(moves, m) == <<m>> \o moves

\* state.moves.push(uciMove)
push(moves, m) == Append(moves, m)

\* An endGame that leaves the session in the map.
gamesDelete_Keep(g) == games

\* this.games.delete(gameId)
gamesDelete(g) == [h \in DOMAIN games \ {g} |-> games[h]]

\* ----------------------------------------------------------------- actions
\* EnginePool.init: build the next worker and await its init, or finish.
PoolInit ==
  /\ pool.pc = "init"
  /\ ops[PoolInitOp].pc = "idle"
  /\ IF pool.n < pool.size
     THEN LET st == InitBody([w |-> workers[pool.n],
                              o |-> [ops[PoolInitOp] EXCEPT !.slot = pool.n]],
                             PoolInitOp, Writer(PoolInitOp), "push")
          IN  Apply(pool.n, PoolInitOp, st)
     ELSE /\ pool' = [pool EXCEPT !.pc = "ready"]
          /\ UNCHANGED <<workers, ops>>
  /\ UNCHANGED <<queue, locks, tasks, games, env, back>>

\* The subprocess emits a line it owes; readline hands it to the listeners.
\* readyok/uciok come in command order; the bestmove of a running search may
\* come before or after them.
EmitIndexes(w) ==
  {i \in 1..Len(w.owed) :
     \A j \in 1..(i - 1) : (w.owed[j] = "bestmove") # (w.owed[i] = "bestmove")}

Emit(s) ==
  /\ workers[s].child
  /\ \E i \in EmitIndexes(workers[s]) :
       LET line == workers[s].owed[i]
           w1   == [workers[s] EXCEPT !.owed = RemoveAt(@, i)]
           hit  == {k \in 1..Len(w1.lineListeners) : w1.lineListeners[k][2] = line}
       IN  IF hit = {}
           THEN /\ workers' = [workers EXCEPT ![s] = w1]
                /\ UNCHANGED <<ops, pool>>
           ELSE LET k  == CHOOSE k \in hit : \A j \in hit : k <= j
                    id == w1.lineListeners[k][1]
                    st == [w |-> cleanup(w1, id),
                           o |-> [ops[id] EXCEPT !.abortL = FALSE]]
                IN  Apply(s, id, OnLine(st, id, Writer(id)))
  /\ UNCHANGED <<queue, locks, tasks, games, env, back>>

\* A wait's setTimeout callback runs.
Timeout(s, id) ==
  /\ id \in workers[s].timers
  /\ LET st == [w |-> cleanup(workers[s], id),
                o |-> [ops[id] EXCEPT !.abortL = FALSE]]
     IN  Apply(s, id, OnTimeout(st, id, Writer(id)))
  /\ UNCHANGED <<queue, locks, tasks, games, env, back>>

\* child.on('exit'): this.child = undefined; a dead process emits nothing.
ProcessExit(s) ==
  /\ workers[s].child
  /\ env.exits < MaxExits
  /\ workers' = [workers EXCEPT ![s].child = FALSE, ![s].owed = <<>>]
  /\ env' = [env EXCEPT !.exits = @ + 1]
  /\ UNCHANGED <<pool, queue, locks, ops, tasks, games, back>>

AbortPhase(o) ==
  CASE o.pc = "search" -> "search"
    [] o.pc = "readyok" /\ o.cont = "search" -> "pre"
    [] o.pc = "readyok" /\ o.cont \in {"settle", "restoreBody"} -> "after"
    [] OTHER -> "queued"

\* The caller's AbortController fires (the WebSocket closed).
Abort(id) ==
  /\ ops[id].sig = "armed"
  /\ ~Settled(id)
  /\ LET s  == ops[id].slot
         st == [w |-> workers[s],
                o |-> [ops[id] EXCEPT !.sig = "aborted",
                                      !.abortedAt = AbortPhase(ops[id])]]
     IN  IF ops[id].abortL THEN Apply(s, id, OnAbort(st, id, Writer(id)))
         ELSE Apply(s, id, st)
  /\ UNCHANGED <<queue, locks, tasks, games, env, back>>

\* A call that had to wait resumes once its `previous` has settled.
Resume(id) ==
  /\ ops[id].pc = "awaitPrev"
  /\ Previous(id)[1] # "pending"
  /\ Apply(ops[id].slot, id,
           AwaitPrevious([w |-> workers[ops[id].slot], o |-> ops[id]],
                         id, Writer(id), Previous(id)))
  /\ UNCHANGED <<queue, locks, tasks, games, env, back>>

Serving == pool.pc = "ready"

\* A caller calls a runExclusive wrapper of the pool.
Call(kind, s, mpv, sig) ==
  /\ Serving
  /\ s \in Slots
  /\ FreeOps # {}
  /\ UsedOps < env.cap
  /\ LET r == runExclusive(kind, s, mpv, sig)
     IN  ops' = r.ops /\ locks' = r.locks /\ workers' = r.workers

\* EnginePool.analyzeWithWorker(id, options) called on the pool directly.
AnalyzeWithWorker(s, mpv, sig) ==
  /\ Call("analyze", s, mpv, sig)
  /\ UNCHANGED <<pool, queue, tasks, games, env, back>>

\* EngineWorker.analyze(options) called on the driver itself by a caller
\* that runs one operation at a time: `if (!this.child) await this.init()`,
\* then the body.  locks keeps the order of the calls.
DriverAnalyze(s, mpv, sig) ==
  /\ Serving
  /\ s \in Slots
  /\ FreeOps # {}
  /\ UsedOps < env.cap
  /\ \A j \in 1..Len(locks[s]) : Settled(locks[s][j])
  /\ LET id == NextOpId
         st == AwaitPrevious(
                 [w |-> workers[s],
                  o |-> [NoOp EXCEPT !.kind = "analyze", !.slot = s,
                                     !.pc = "awaitPrev", !.mpv = mpv,
                                     !.sig = sig]],
                 id, [by |-> id, inChain |-> TRUE], <<"resolved", "none">>)
     IN  /\ ops' = [ops EXCEPT ![id] = st.o]
         /\ locks' = [locks EXCEPT ![s] = Append(@, id)]
         /\ workers' = [workers EXCEPT ![s] = st.w]
  /\ UNCHANGED <<pool, queue, tasks, games, env, back>>

\* EnginePool.newGame(id) called on the pool directly.
PoolNewGame(s) ==
  /\ Call("newGame", s, 0, "none")
  /\ UNCHANGED <<pool, queue, tasks, games, env, back>>

\* EnginePool.configure(id, {MultiPV: v}).
Configure(s, v) ==
  /\ Call("configure", s, v, "none")
  /\ UNCHANGED <<pool, queue, tasks, games, env, back>>

\* EnginePool.checkHealth: ping through the chain of workers[0].
CheckHealth ==
  /\ Call("ping", 0, 0, "none")
  /\ UNCHANGED <<pool, queue, tasks, games, env, back>>

\* pool.acquire() by a new caller t: take the idle wrapper or join the queue.
Acquire(kind, g, fen) ==
  /\ Serving
  /\ FreeTasks # {}
  /\ LET t  == NextTaskId
         tk == pool.tickets + 1
         s  == getIdleWorker
     IN  IF s # 0 - 1
         THEN /\ workers' = [workers EXCEPT ![s].allocated = TRUE,
                                            ![s].holders = @ \cup {t}]
              /\ tasks' = [tasks EXCEPT ![t] =
                   [NoTask EXCEPT !.kind = kind, !.gid = g, !.pc = "granted",
                                  !.slot = s, !.ticket = tk, !.fen = fen]]
              /\ pool' = [pool EXCEPT !.tickets = tk, !.lastGranted = tk]
              /\ UNCHANGED queue
         ELSE /\ queue' = Append(queue, t)
              /\ tasks' = [tasks EXCEPT ![t] =
                   [NoTask EXCEPT !.kind = kind, !.gid = g, !.pc = "queued",
                                  !.ticket = tk, !.fen = fen]]
              /\ pool' = [pool EXCEPT !.tickets = tk]
              /\ UNCHANGED workers

\* GameManager.startGame up to `await this.pool.acquire()`.
StartGame(g, fen) ==
  /\ startGameCheck(g, fen) = "ok"
  /\ Acquire("startGame", g, fen)
  /\ UNCHANGED <<locks, ops, games, env, back>>

\* GameManager.startGame throwing before it acquires anything.
StartGameRejected(g, fen) ==
  /\ Serving
  /\ startGameCheck(g, fen) # "ok"
  /\ reply' = Throw("startGame", g, fen, startGameCheck(g, fen))
  /\ UNCHANGED <<pool, workers, queue, locks, ops, tasks, games, env,
                 review, calc>>

\* The stateless WebSocket analysis up to `await pool.acquire()`.
Stateless ==
  /\ Acquire("stateless", 0, "none")
  /\ UNCHANGED <<locks, ops, games, env, back>>

\* After acquire returned: `await pool.newGame(worker.id)`.
NewGame(t) ==
  /\ tasks[t].pc = "granted"
  /\ Call("newGame", tasks[t].slot, 0, "none")
  /\ tasks' = [tasks EXCEPT ![t].pc = "newGame", ![t].op = NextOpId]
  /\ review' = [review EXCEPT ![t].calls = Append(@, NextOpId)]
  /\ UNCHANGED <<pool, queue, games, env, reply, calc>>

\* newGame threw: startGame's catch block / the finally block of the
\* stateless analysis or of the review pass release the slot.
NewGameFailed(t) ==
  /\ tasks[t].pc = "newGame"
  /\ ops[tasks[t].op].pc = "failed"
  /\ LET r == release(tasks[t].slot, t)
     IN  /\ workers' = r.workers
         /\ queue' = r.queue
         /\ pool' = r.pool
         /\ tasks' = [r.tasks EXCEPT ![t].pc = "failed"]
  /\ review' = IF tasks[t].kind # "review" THEN review
               ELSE [review EXCEPT ![t].rel = @ + 1]
  /\ UNCHANGED <<locks, ops, games, env, reply, calc>>

\* startGame after newGame returned: this.games.set(gameId, state).
Register(t) ==
  /\ tasks[t].kind = "startGame"
  /\ tasks[t].pc = "newGame"
  /\ ops[tasks[t].op].pc = "done"
  /\ games' = [g \in DOMAIN games \cup {tasks[t].gid} |->
                 IF g = tasks[t].gid
                 THEN [workerId |-> tasks[t].slot, moves |-> <<>>,
                       initialFen |-> tasks[t].fen, owner |-> t]
                 ELSE games[g]]
  /\ tasks' = [tasks EXCEPT ![t].pc = "done"]
  /\ UNCHANGED <<pool, workers, queue, locks, ops, env, back>>

\* The stateless analysis after newGame returned: analyzeWithWorker with the
\* socket's abort signal (which the socket may already have fired).
StatelessAnalyze(t, mpv, sig) ==
  /\ tasks[t].kind = "stateless"
  /\ tasks[t].pc = "newGame"
  /\ ops[tasks[t].op].pc = "done"
  /\ Call("analyze", tasks[t].slot, mpv, sig)
  /\ tasks' = [tasks EXCEPT ![t].pc = "analyze", ![t].op = NextOpId]
  /\ review' = [review EXCEPT ![t].calls = Append(@, NextOpId)]
  /\ UNCHANGED <<pool, queue, games, env, reply, calc>>

\* The stateless analysis settled: finally { pool.release(handle.id) }.
StatelessDone(t) ==
  /\ tasks[t].pc = "analyze"
  /\ Settled(tasks[t].op)
  /\ LET r == release(tasks[t].slot, t)
     IN  /\ workers' = r.workers
         /\ queue' = r.queue
         /\ pool' = r.pool
         /\ tasks' = [r.tasks EXCEPT ![t].pc = "done"]
  /\ UNCHANGED <<locks, ops, games, env, back>>

\* POST /analysis/game up to `await pool.acquire()`: the PGN is loaded, its
\* moves are listed.
ReviewStart(moves, mpv) ==
  /\ Acquire("review", 0, "none")
  /\ review' = [review EXCEPT ![NextTaskId] =
                  [NoReview EXCEPT !.moves = moves, !.mpv = mpv]]
  /\ UNCHANGED <<locks, ops, games, env, reply, calc>>

\* The head of the review loop with the pass at rv: the before-move search
\* of the next ply, or res.json(report) and the finally block's release.
ReviewLoop(t, rv) ==
  IF Len(rv.report) < Len(rv.moves)
  THEN /\ Call("analyze", tasks[t].slot, rv.mpv, "none")
       /\ tasks' = [tasks EXCEPT ![t].pc = "before", ![t].op = NextOpId]
       /\ review' = [review EXCEPT ![t] =
                       [rv EXCEPT !.calls = Append(@, NextOpId)]]
       /\ UNCHANGED <<pool, queue>>
  ELSE /\ LET r == release(tasks[t].slot, t)
          IN  /\ workers' = r.workers
              /\ queue' = r.queue
              /\ pool' = r.pool
              /\ tasks' = [r.tasks EXCEPT ![t].pc = "done"]
       /\ review' = [review EXCEPT ![t] = [rv EXCEPT !.rel = @ + 1]]
       /\ UNCHANGED <<locks, ops>>

\* The review pass after newGame returned.
ReviewBegin(t) ==
  /\ tasks[t].kind = "review"
  /\ tasks[t].pc = "newGame"
  /\ ops[tasks[t].op].pc = "done"
  /\ ReviewLoop(t, review[t])
  /\ UNCHANGED <<games, env, reply, calc>>

\* The before-move search returned `lines`: reuse the score of the line that
\* starts with the played move, or search the position after the move.
ReviewBefore(t, lines) ==
  /\ tasks[t].kind = "review"
  /\ tasks[t].pc = "before"
  /\ ops[tasks[t].op].pc = "done"
  /\ LET playedUci  == review[t].moves[Len(review[t].report) + 1]
         k          == find(lines, playedUci)
         scoreAfter == IF k = 0 THEN Absent ELSE lines[k].score
         rv == [review[t] EXCEPT !.pending =
                  [scoreBefore |-> topScore(lines),
                   top |-> topMove(lines),
                   hit |-> IF k = 0 THEN "none"
                           ELSE IF scoreAfter = Absent THEN "unscored"
                           ELSE "scored",
                   hitScore |-> scoreAfter]]
     IN  IF scoreAfter # Absent
         THEN ReviewLoop(t, reportPush(rv, PlyReport(rv, scoreAfter, 1, Absent, 0)))
         ELSE /\ Call("analyze", tasks[t].slot, 1, "none")
              /\ tasks' = [tasks EXCEPT ![t].pc = "after", ![t].op = NextOpId]
              /\ review' = [review EXCEPT ![t] =
                              [rv EXCEPT !.calls = Append(@, NextOpId)]]
              /\ UNCHANGED <<pool, queue>>
  /\ UNCHANGED <<games, env, reply, calc>>

\* The search of the position after the move returned `lines`.
ReviewAfter(t, lines) ==
  /\ tasks[t].kind = "review"
  /\ tasks[t].pc = "after"
  /\ ops[tasks[t].op].pc = "done"
  /\ LET scoreAfter == invertScore(topScore(lines))
         rv == review[t]
     IN  ReviewLoop(t, reportPush(rv,
           PlyReport(rv, scoreAfter, 2, topScore(lines), ops[tasks[t].op].mpv)))
  /\ UNCHANGED <<games, env, reply, calc>>

\* A search of the pass threw: the finally block releases the slot.
ReviewFailed(t) ==
  /\ tasks[t].kind = "review"
  /\ tasks[t].pc \in {"before", "after"}
  /\ ops[tasks[t].op].pc = "failed"
  /\ LET r == release(tasks[t].slot, t)
     IN  /\ workers' = r.workers
         /\ queue' = r.queue
         /\ pool' = r.pool
         /\ tasks' = [r.tasks EXCEPT ![t].pc = "failed"]
  /\ review' = [review EXCEPT ![t].rel = @ + 1]
  /\ UNCHANGED <<locks, ops, games, env, reply, calc>>

\* GameManager.endGame on a registered id.
EndGame(g) ==
  /\ Serving
  /\ getGame(g) = "ok"
  /\ LET r == release(games[g].workerId, games[g].owner)
     IN  /\ workers' = r.workers
         /\ queue' = r.queue
         /\ pool' = r.pool
         /\ tasks' = r.tasks
  /\ games' = gamesDelete(g)
  /\ UNCHANGED <<locks, ops, env, back>>

\* GameManager.endGame on an id getGame does not find.
EndGameRejected(g) ==
  /\ Serving
  /\ getGame(g) # "ok"
  /\ reply' = Throw("endGame", g, "none", getGame(g))
  /\ UNCHANGED <<pool, workers, queue, locks, ops, tasks, games, env,
                 review, calc>>

\* GameManager.addMove with a move the rules engine accepts.
AddMove(g, m) ==
  /\ Serving
  /\ addMoveCheck(g, m) = "ok"
  /\ Len(games[g].moves) < MaxMoves
  /\ games' = [games EXCEPT ![g].moves = push(@, m)]
  /\ UNCHANGED <<pool, workers, queue, locks, ops, tasks, env, back>>

\* GameManager.addMove throwing: no such game, or a move chess.js refuses.
AddMoveRejected(g, m) ==
  /\ Serving
  /\ addMoveCheck(g, m) # "ok"
  /\ reply' = Throw("addMove", g, m, addMoveCheck(g, m))
  /\ UNCHANGED <<pool, workers, queue, locks, ops, tasks, games, env,
                 review, calc>>

\* POST /analyze (sig = "none") or the game-bound WebSocket (sig = "armed"):
\* analyzeWithWorker on the session's worker.
AnalyzeGame(g, mpv, sig) ==
  /\ g \in DOMAIN games
  /\ Call("analyze", games[g].workerId, mpv, sig)
  /\ review' = [review EXCEPT ![games[g].owner].calls = Append(@, NextOpId)]
  /\ UNCHANGED <<pool, queue, tasks, games, env, reply, calc>>

\* EnginePool.stopAll: worker.stop() on every driver, straight to stdin.
StopAll ==
  /\ Serving
  /\ env.phase = "running"
  /\ workers' = [s \in SlotIds |->
       IF s \in Slots /\ workers[s].child
       THEN write(workers[s], "stop", [by |-> StopAllCtx, inChain |-> FALSE])
       ELSE workers[s]]
  /\ env' = [env EXCEPT !.phase = "stopped"]
  /\ UNCHANGED <<pool, queue, locks, ops, tasks, games, back>>

\* EnginePool.dispose: kill every child and drop the reference.
Dispose ==
  /\ Serving
  /\ env.phase = "stopped"
  /\ workers' = [s \in SlotIds |->
       IF s \in Slots /\ workers[s].child
       THEN [workers[s] EXCEPT !.child = FALSE, !.owed = <<>>]
       ELSE workers[s]]
  /\ env' = [env EXCEPT !.phase = "disposed"]
  /\ UNCHANGED <<pool, queue, locks, ops, tasks, games, back>>

\* The route that made pool call id answers once the call has settled:
\* GET /health for checkHealth's ping, POST /analyze, /game/start and
\* /analysis/game for analyze and newGame.
Respond(id) ==
  /\ Settled(id)
  /\ ops[id].kind \in {"ping", "analyze", "newGame"}
  /\ reply' = Http(id, ops[id].err,
                   IF ops[id].pc = "done" THEN Ok
                   ELSE IF ops[id].kind = "ping" THEN healthError(ops[id].err)
                   ELSE handleError(ops[id].err))
  /\ UNCHANGED <<pool, workers, queue, locks, ops, tasks, games, env,
                 review, calc>>

\* classify(before, after) is computed.
Classify ==
  /\ calc.fn = "classify"
  /\ calc.out = "none"
  /\ calc' = [calc EXCEPT !.out = classify(calc.before, calc.after)]
  /\ UNCHANGED <<pool, workers, queue, locks, ops, tasks, games, env,
                 reply, review>>

\* EnginePool.init: const size = ...
InitSize ==
  /\ calc.fn = "init"
  /\ calc.pc = "start"
  /\ calc' = [calc EXCEPT !.pc = "loop",
                          !.size = poolSize(calc.cfg, calc.cpuCount)]
  /\ UNCHANGED <<pool, workers, queue, locks, ops, tasks, games, env,
                 reply, review>>

\* One turn of the loop whose worker.init() returns: the wrapper is pushed.
InitPush ==
  /\ calc.fn = "init"
  /\ calc.pc = "loop"
  /\ Len(calc.workers) < calc.size
  /\ calc' = [calc EXCEPT !.workers =
                 Append(@, [id |-> Len(calc.workers), allocated |-> FALSE])]
  /\ UNCHANGED <<pool, workers, queue, locks, ops, tasks, games, env,
                 reply, review>>

\* One turn of the loop whose worker.init() throws: init rejects.
InitThrow ==
  /\ calc.fn = "init"
  /\ calc.pc = "loop"
  /\ Len(calc.workers) < calc.size
  /\ calc' = [calc EXCEPT !.pc = "rejected"]
  /\ UNCHANGED <<pool, workers, queue, locks, ops, tasks, games, env,
                 reply, review>>

\* The loop condition i < size fails: init returns.
InitReturn ==
  /\ calc.fn = "init"
  /\ calc.pc = "loop"
  /\ ~(Len(calc.workers) < calc.size)
  /\ calc' = [calc EXCEPT !.pc = "ready"]
  /\ UNCHANGED <<pool, workers, queue, locks, ops, tasks, games, env,
                 reply, review>>

\* scoreToNumber is applied to both scores.
ScoreToNumber ==
  /\ calc.fn = "scores"
  /\ ~calc.normalized
  /\ calc' = [calc EXCEPT !.normalized = TRUE,
                          !.na = scoreToNumber(calc.a),
                          !.nb = scoreToNumber(calc.b)]
  /\ UNCHANGED <<pool, workers, queue, locks, ops, tasks, games, env,
                 reply, review>>

\* invertScore is applied to the first score, and to what it returned;
\* scoreToNumber is applied to the inverted score.
InvertScore ==
  /\ calc.fn = "scores"
  /\ ~calc.inverted
  /\ calc' = [calc EXCEPT !.inverted = TRUE,
                          !.inv = invertScore(calc.a),
                          !.inv2 = invertScore(invertScore(calc.a)),
                          !.ninv = scoreToNumber(invertScore(calc.a))]
  /\ UNCHANGED <<pool, workers, queue, locks, ops, tasks, games, env,
                 reply, review>>

\* readline hands a line to the listeners of a search: infoListener stores
\* a progress line, listener resolves on a best-move line that names a move
\* and runs cleanup; any other line is ignored by both.
SearchLine(line) ==
  /\ calc.fn = "analyze"
  /\ ~calc.done
  /\ Len(calc.seen) < MaxInfo
  /\ calc' =
       CASE line.kind = "info" ->
              [calc EXCEPT !.seen = Append(@, line),
                           !.lines = linesSet(@, evaluation(line))]
         [] line.kind = "bestmove" /\ line.bestmove # "none" ->
              [calc EXCEPT !.seen = Append(@, line),
                           !.done = TRUE,
                           !.res = [bestmove |-> line.bestmove,
                                    ponder |-> line.ponder,
                                    lines |-> sorted(calc.lines)]]
         [] OTHER -> [calc EXCEPT !.seen = Append(@, line)]
  /\ UNCHANGED <<pool, workers, queue, locks, ops, tasks, games, env,
                 reply, review>>

\* ---------------------------------------------------------- specifications
Boot ==
  /\ pool \in {[pc |-> "init", size |-> n, n |-> 0, tickets |-> 0,
                lastGranted |-> 0] : n \in 1..MaxPool}
  /\ workers = [s \in SlotIds |-> NewWorker]
  /\ queue = <<>>
  /\ locks = [s \in SlotIds |-> <<>>]
  /\ ops = [id \in 0..MaxOps |->
             IF id = PoolInitOp
             THEN [NoOp EXCEPT !.kind = "poolInit", !.pc = "idle"]
             ELSE NoOp]
  /\ tasks = [t \in TaskIds |-> NoTask]
  /\ games = << >>
  /\ env \in {[exits |-> 0, phase |-> "running", cap |-> c] :
                c \in {MaxCalls, MaxChain, MaxOps}}
  /\ reply = NoReply
  /\ review = [t \in TaskIds |-> NoReview]

Init == Boot /\ calc = NoCalc

\* The driver and an engine that answers, stalls or is timed out.
Engine ==
  \/ PoolInit
  \/ \E s \in SlotIds : Emit(s)
  \/ \E s \in SlotIds, id \in 0..MaxOps : Timeout(s, id)
  \/ \E id \in OpIds : Resume(id)

\* What else can happen to a running call: its subprocess exits, its caller
\* aborts, the server shuts the pool down.
Hazards ==
  \/ \E s \in SlotIds : ProcessExit(s)
  \/ \E id \in OpIds : Abort(id)
  \/ StopAll
  \/ Dispose

\* The pool called directly: any callers of the runExclusive wrappers.
PoolCalls(sigs) ==
  \/ \E s \in SlotIds, mpv \in MpvValues, sig \in sigs :
       AnalyzeWithWorker(s, mpv, sig)
  \/ \E s \in SlotIds : PoolNewGame(s)
  \/ \E s \in SlotIds, v \in MpvValues : Configure(s, v)
  \/ CheckHealth

\* The pool called by the registry and the server's handlers.
Sessions(mpvs, sigs) ==
  \/ \E g \in GameIds : StartGame(g, "none")
  \/ Stateless
  \/ \E t \in TaskIds : NewGame(t)
  \/ \E t \in TaskIds : NewGameFailed(t)
  \/ \E t \in TaskIds : Register(t)
  \/ \E t \in TaskIds, mpv \in mpvs, sig \in sigs :
       StatelessAnalyze(t, mpv, sig)
  \/ \E t \in TaskIds : StatelessDone(t)
  \/ \E g \in GameIds : EndGame(g)
  \/ \E g \in GameIds, m \in UciMoves : AddMove(g, m)
  \/ \E g \in GameIds, mpv \in mpvs : AnalyzeGame(g, mpv, "none")

OneSlot(cap) == Init /\ pool.size = 1 /\ env.cap = cap
AnySize == Init /\ env.cap = MaxChain

\* One driver, up to MaxCalls calls on it, every hazard.
NextDriver == Engine \/ Hazards \/ PoolCalls({"none", "armed"})
SpecDriver == OneSlot(MaxCalls) /\ [][NextDriver]_vars

\* One chain, up to MaxChain calls queued on it, no hazards.
NextChain == Engine \/ PoolCalls({"none"})
SpecChain == OneSlot(MaxChain) /\ [][NextChain]_vars

\* Pools of 1..MaxPool slots under the registry and the stateless handler.
NextPool == Engine \/ Sessions({DefaultMultiPv}, {"armed"})
SpecPool == AnySize /\ [][NextPool]_vars

\* The registry alone: every call of startGame, addMove and endGame, the
\* refused ones included, over an engine that answers or is timed out.
Registry ==
  \/ \E g \in GameIds, fen \in Fens : StartGame(g, fen)
  \/ \E g \in GameIds, fen \in Fens : StartGameRejected(g, fen)
  \/ \E t \in TaskIds : NewGame(t)
  \/ \E t \in TaskIds : NewGameFailed(t)
  \/ \E t \in TaskIds : Register(t)
  \/ \E g \in GameIds, m \in UciMoves : AddMove(g, m)
  \/ \E g \in GameIds, m \in UciMoves : AddMoveRejected(g, m)
  \/ \E g \in GameIds : EndGame(g)
  \/ \E g \in GameIds : EndGameRejected(g)
NextRegistry ==
  \/ PoolInit
  \/ \E s \in SlotIds : Emit(s)
  \/ \E s \in SlotIds, id \in 0..MaxOps : Timeout(s, id)
  \/ Registry
SpecRegistry == OneSlot(MaxChain) /\ [][NextRegistry]_vars

\* classify over every pair of scores in range.
InitClassify ==
  /\ Boot /\ pool.size = 1 /\ env.cap = MaxChain
  /\ calc \in {[fn |-> "classify", before |-> b, after |-> a, out |-> "none"] :
                 b \in Scores, a \in Scores}
NextClassify == Classify
SpecClassify == InitClassify /\ [][NextClassify]_vars

\* One driver under analyze calls whose signal is not yet or already set.
NextSignal ==
  \/ Engine
  \/ \E s \in SlotIds : ProcessExit(s)
  \/ \E id \in OpIds : Abort(id)
  \/ \E s \in SlotIds, mpv \in MpvValues, sig \in {"armed", "aborted"} :
       AnalyzeWithWorker(s, mpv, sig)
SpecSignal == OneSlot(MaxCalls) /\ [][NextSignal]_vars

\* One driver called directly, one analyze at a time, over an engine that
\* answers late or not at all.
NextWorker ==
  \/ PoolInit
  \/ \E s \in SlotIds : Emit(s)
  \/ \E s \in SlotIds, id \in 0..MaxOps : Timeout(s, id)
  \/ \E id \in OpIds : Abort(id)
  \/ \E s \in SlotIds, mpv \in MpvValues, sig \in {"none", "armed"} :
       DriverAnalyze(s, mpv, sig)
SpecWorker == OneSlot(MaxChain) /\ [][NextWorker]_vars

\* The routes over one driver whose engine answers, stalls or exits.
NextHttp ==
  \/ Engine
  \/ \E s \in SlotIds : ProcessExit(s)
  \/ \E s \in SlotIds, mpv \in MpvValues : AnalyzeWithWorker(s, mpv, "none")
  \/ \E s \in SlotIds : PoolNewGame(s)
  \/ CheckHealth
  \/ \E id \in OpIds : Respond(id)
SpecHttp == OneSlot(MaxCalls) /\ [][NextHttp]_vars

\* Normalization and inversion over every pair of scores in range.
InitScores ==
  /\ Boot /\ pool.size = 1 /\ env.cap = MaxChain
  /\ calc \in {NewScores(a, b) : a \in WideScores, b \in WideScores}
NextScores == ScoreToNumber \/ InvertScore
SpecScores == InitScores /\ [][NextScores]_vars

\* Pool initialization over every configured size and core count in range.
InitSizes ==
  /\ Boot /\ pool.size = 1 /\ env.cap = MaxChain
  /\ calc \in {NewPool(cfg, n) :
                 cfg \in {Undefined} \cup {Given(v) : v \in 0..MaxSize},
                 n \in 0..MaxCores}
NextSizes == InitSize \/ InitPush \/ InitThrow \/ InitReturn
SpecSizes == InitSizes /\ [][NextSizes]_vars

\* One search over every stream of lines in range.
InitSearch == Boot /\ pool.size = 1 /\ env.cap = MaxChain /\ calc = NewSearch
NextSearch ==
  \E line \in InfoLines \cup BestMoveLines \cup {OtherLine} : SearchLine(line)
SpecSearch == InitSearch /\ [][NextSearch]_vars

\* Review passes on a pool of one slot.
Reviews ==
  \/ \E moves \in ReviewGames, mpv \in MpvValues : ReviewStart(moves, mpv)
  \/ \E t \in TaskIds : NewGame(t)
  \/ \E t \in TaskIds : NewGameFailed(t)
  \/ \E t \in TaskIds : ReviewBegin(t)
  \/ \E t \in TaskIds, lines \in AnalysisLines : ReviewBefore(t, lines)
  \/ \E t \in TaskIds, lines \in AnalysisLines : ReviewAfter(t, lines)
  \/ \E t \in TaskIds : ReviewFailed(t)
NextReview ==
  \/ PoolInit
  \/ \E s \in SlotIds : Emit(s)
  \/ \E s \in SlotIds, id \in 0..MaxOps : Timeout(s, id)
  \/ Reviews
SpecReview == OneSlot(MaxChain) /\ [][NextReview]_vars

Next == Engine \/ Hazards \/ PoolCalls({"none", "armed"})
          \/ Sessions(MpvValues, {"armed", "aborted"}) \/ Registry
          \/ Classify \/ Reviews \/ NextSearch \/ NextScores
          \/ \E id \in OpIds : Respond(id)
          \/ \E s \in SlotIds, mpv \in MpvValues, sig \in {"none", "armed"} :
               DriverAnalyze(s, mpv, sig)
Spec == AnySize /\ [][Next]_vars

\* Timers fire, a live engine emits what it owes, a released call resumes.
Fairness ==
  /\ \A s \in SlotIds : WF_vars(Emit(s))
  /\ \A s \in SlotIds, id \in 0..MaxOps : WF_vars(Timeout(s, id))
  /\ \A id \in OpIds : WF_vars(Resume(id))
FairDriver == SpecDriver /\ Fairness

\* MaxPool drivers, up to MaxChain calls spread over them, an engine that
\* answers or is timed out.
TwoSlots == Init /\ pool.size = MaxPool /\ env.cap = MaxChain
NextSlots ==
  \/ Engine
  \/ \E s \in SlotIds : AnalyzeWithWorker(s, DefaultMultiPv, "none")
  \/ \E s \in SlotIds : PoolNewGame(s)
SpecSlots == TwoSlots /\ [][NextSlots]_vars

\* ------------------------------------------------------------------ claims
OnSlot(s) == {id \in OpIds : ops[id].kind # "none" /\ ops[id].slot = s}

\* C1: at most one operation executes against a slot's driver at any time;
\* an operation executes (writes commands, waits for lines, restores the
\* multi-PV) only once every operation chained before it has settled.
C1_NonOverlap ==
  \A s \in SlotIds :
    /\ Cardinality({id \in OnSlot(s) : Executing(id)}) <= 1
    /\ \A id \in OnSlot(s) :
         Executing(id) =>
           \A j \in 1..(ChainIndex(id) - 1) : Settled(locks[s][j])

\* A call waits while the call before it is still restoring the multi-PV.
C1_Witness ==
  \E a \in OpIds, b \in OpIds :
    /\ a # b /\ ops[a].slot = ops[b].slot
    /\ ops[a].pc = "readyok" /\ ops[a].cont = "settle"
    /\ ops[b].pc = "awaitPrev"

\* C2: a failure reaches only the caller of the failing operation: every
\* operation that fails has run its own function (or its own init) and fails
\* with its own error, never with an error of an operation before it.
C2_FailureIsolated ==
  \A id \in OpIds : ops[id].pc = "failed" => ~ops[id].inherited

Started(id) ==
  ops[id].kind # "none" /\ ops[id].pc # "awaitPrev" /\ ~ops[id].inherited

\* C3: operations on one slot start in the order runExclusive was called: at
\* every moment the started operations are the first ones of the call order.
C3_StartOrder ==
  \A s \in SlotIds :
    \A i \in 1..Len(locks[s]), j \in 1..Len(locks[s]) :
      (i < j /\ Started(locks[s][j])) => Started(locks[s][i])

\* Three calls on one slot: the first is over, the second runs, the third
\* still waits.
C3_Witness ==
  \E s \in SlotIds :
    /\ Len(locks[s]) = 3
    /\ ops[locks[s][1]].pc = "done"
    /\ Executing(locks[s][2])
    /\ ops[locks[s][3]].pc = "awaitPrev"

\* C4: a slot is held by at most one caller: acquire never hands out a slot
\* that an earlier acquire handed out and that has not been released since.
C4_OneHolder ==
  \A s \in SlotIds :
    /\ Cardinality(workers[s].holders) <= 1
    /\ workers[s].holders # {} => workers[s].allocated

\* A slot that one caller held and released is held by another caller.
C4_Witness ==
  \E t \in TaskIds, u \in TaskIds :
    /\ t # u
    /\ tasks[t].pc \in {"done", "failed"}
    /\ tasks[t].kind = "stateless"
    /\ workers[tasks[t].slot].holders = {u}

\* C5: waiting acquire calls are granted in call order, and no acquire is
\* granted ahead of a waiting one: the queue is in call order and every
\* waiting call was made after every call granted so far.
C5_Fifo ==
  /\ \A i \in 1..Len(queue), j \in 1..Len(queue) :
       i < j => tasks[queue[i]].ticket < tasks[queue[j]].ticket
  /\ \A i \in 1..Len(queue) : tasks[queue[i]].ticket > pool.lastGranted

\* With one slot: the second caller waited and has been granted, the third
\* still waits.
C5_Witness ==
  /\ pool.size = 1
  /\ pool.lastGranted = 2
  /\ Len(queue) = 1
  /\ tasks[queue[1]].ticket = 3

\* C6: once an analyze whose multi-PV differed from the driver's has settled,
\* with a result or with any error, the driver's multi-PV and the last MultiPV
\* option sent to the engine are what they were before the call.
C6_Restored ==
  \A id \in OpIds :
    (/\ ops[id].kind = "analyze" /\ Settled(id)
     /\ ops[id].prev # 0 /\ ops[id].mpv # ops[id].prev)
    => /\ ops[id].mpvSettle = ops[id].prev
       /\ ops[id].sentSettle = ops[id].prev

\* C7: an analyze whose signal fired after its already-aborted check and
\* before its best-move line (the pre-search reconfiguration included) ends
\* with the aborted error, and a stop command was written for it.
C7_AbortRejects ==
  \A id \in OpIds :
    (Settled(id) /\ ops[id].abortedAt \in {"pre", "search"})
    => (ops[id].err = "Aborted" /\ ops[id].stopW)

\* C8: every analyze call that has started eventually settles.
C8_Settles ==
  \A id \in OpIds :
    (ops[id].kind = "analyze" /\ Executing(id)) ~> Settled(id)

\* C9 as claimed: every command written to a subprocess is written by the
\* operation currently executing in the slot's chain.
C9_OnlyChain ==
  \A s \in SlotIds :
    workers[s].lastWrite.cmd # "none" => workers[s].lastWrite.inChain

\* C9 as amended: every command written to a subprocess is written by the
\* operation currently executing in the slot's chain, except the commands of
\* pool initialization and the stop commands of stopAll.
C9_ChainOrPool ==
  \A s \in SlotIds :
    workers[s].lastWrite.cmd # "none" =>
      \/ workers[s].lastWrite.inChain
      \/ workers[s].lastWrite.by \in {PoolInitOp, StopAllCtx}

\* The abort handler of the running analyze wrote stop while another call
\* waits behind it.
C9_Witness ==
  \E id \in OpIds, b \in OpIds :
    /\ workers[ops[id].slot].lastWrite.by = id
    /\ workers[ops[id].slot].lastWrite.inChain
    /\ ops[id].stopW
    /\ ops[b].pc = "awaitPrev" /\ ops[b].slot = ops[id].slot

\* C10: while a game id stays registered its session is not replaced and its
\* workerId does not change.
C10_WorkerIdStable ==
  [][\A g \in GameIds :
       (g \in DOMAIN games /\ g \in DOMAIN games')
       => (games'[g].workerId = games[g].workerId
           /\ games'[g].owner = games[g].owner)]_vars

\* The session registered under g is the same object before and after a step.
SameSession(g) ==
  /\ g \in DOMAIN games
  /\ g \in DOMAIN games'
  /\ games'[g].owner = games[g].owner

\* A synchronous call of the registry threw in this step.
Threw(call) == reply' # reply /\ reply'.call = call

\* C11: startGame with an id that is registered throws "Game already exists"
\* and changes neither the wrappers (allocated flags, holders), nor the wait
\* queue, nor the sessions; no startGame with a registered id goes on to
\* acquire.
C11_DuplicateRejected ==
  [][/\ \A t \in TaskIds :
          (tasks[t].kind = "none" /\ tasks'[t].kind = "startGame")
          => tasks'[t].gid \notin DOMAIN games
     /\ (Threw("startGame") /\ reply'.gid \in DOMAIN games)
        => /\ reply'.err = "Game already exists"
           /\ UNCHANGED <<workers, queue, games, tasks>>]_vars

\* A duplicate startGame was refused while another caller waits for a slot.
C11_Witness ==
  /\ reply.call = "startGame"
  /\ reply.err = "Game already exists"
  /\ reply.gid \in DOMAIN games
  /\ queue # <<>>

\* C12: a startGame whose newGame failed holds no slot when its error reaches
\* the caller, and no session is registered for it.
C12_ReleasedOnFailure ==
  \A t \in TaskIds :
    (tasks[t].kind = "startGame" /\ tasks[t].pc = "failed")
    => /\ \A s \in SlotIds : t \notin workers[s].holders
       /\ \A g \in DOMAIN games : games[g].owner # t

\* A startGame failed in newGame and its slot went to the caller that waited.
C12_Witness ==
  \E t \in TaskIds, u \in TaskIds :
    /\ tasks[t].kind = "startGame" /\ tasks[t].pc = "failed"
    /\ u # t
    /\ tasks[u].ticket > tasks[t].ticket
    /\ workers[tasks[t].slot].holders = {u}

\* C13 as claimed: every startGame with a position the rules engine cannot
\* parse fails with "Invalid FEN".
C13_InvalidPosition ==
  (reply.call = "startGame" /\ reply.arg = "unparseable")
  => reply.err = "Invalid FEN"

\* C13 as amended: startGame with a position the rules engine cannot parse
\* throws before it acquires or waits for a slot and registers no session;
\* the error is "Invalid FEN" when the id is not registered and "Game already
\* exists" when it is.
C13_FailsBeforeAcquire ==
  [][/\ \A t \in TaskIds : tasks'[t].fen # "unparseable"
     /\ \A g \in DOMAIN games' : games'[g].initialFen # "unparseable"
     /\ (Threw("startGame") /\ reply'.arg = "unparseable")
        => /\ reply'.err = IF reply'.gid \in DOMAIN games
                           THEN "Game already exists" ELSE "Invalid FEN"
           /\ UNCHANGED <<workers, queue, games, tasks>>]_vars

\* An unparseable position was refused while a slot was free.
C13_Witness ==
  /\ reply.call = "startGame"
  /\ reply.err = "Invalid FEN"
  /\ \E s \in Slots : ~workers[s].allocated

\* C14: addMove with a move the rules engine rejects in the position reached
\* by the stored moves throws "Illegal move" and leaves the sessions as they
\* were; a move list only ever gains a move the rules engine accepted.
C14_IllegalMoveRejected ==
  [][/\ (/\ Threw("addMove")
         /\ reply'.gid \in DOMAIN games
         /\ ~chessMove(games[reply'.gid].moves, reply'.arg))
        => (reply'.err = "Illegal move" /\ UNCHANGED games)
     /\ \A g \in GameIds :
          (SameSession(g) /\ games'[g].moves # games[g].moves)
          => \E m \in UciMoves :
               /\ chessMove(games[g].moves, m)
               /\ games'[g].moves = Append(games[g].moves, m)]_vars

\* A move that was legal one ply earlier is refused in the position reached.
C14_Witness ==
  /\ reply.call = "addMove"
  /\ reply.err = "Illegal move"
  /\ reply.arg = "e2e4"
  /\ reply.gid \in DOMAIN games
  /\ games[reply.gid].moves = <<"e2e4">>

\* C15: the move list of a session only grows at its end: across every step
\* the earlier list is a prefix of the later one, and it gains at most one
\* move per step.
C15_AppendOnly ==
  [][\A g \in GameIds :
       SameSession(g) =>
         \/ games'[g].moves = games[g].moves
         \/ /\ Len(games'[g].moves) = Len(games[g].moves) + 1
            /\ SubSeq(games'[g].moves, 1, Len(games[g].moves)) = games[g].moves]_vars

\* A session with two moves, added one after the other.
C15_Witness ==
  \E g \in DOMAIN games : games[g].moves = <<"e2e4", "e7e5">>

\* C16: endGame on a registered id removes the session and takes its slot
\* from it; while a session is registered its slot is held by it and by no
\* one else; endGame on an absent id throws "Game not found" and changes
\* neither the wrappers, nor the queue, nor the sessions.
C16_EndGameOnce ==
  [][/\ \A g \in DOMAIN games' :
          workers'[games'[g].workerId].holders = {games'[g].owner}
     /\ \A g \in DOMAIN games :
          g \notin DOMAIN games'
          => games[g].owner \notin workers'[games[g].workerId].holders
     /\ Threw("endGame")
        => /\ reply'.gid \notin DOMAIN games
           /\ reply'.err = "Game not found"
           /\ UNCHANGED <<workers, queue, games, tasks>>]_vars

\* A second endGame is refused after the slot went to the caller that waited.
C16_Witness ==
  /\ reply.call = "endGame"
  /\ reply.err = "Game not found"
  /\ \E t \in TaskIds, s \in Slots :
       /\ tasks[t].kind = "startGame"
       /\ tasks[t].gid # reply.gid
       /\ tasks[t].ticket > 1
       /\ workers[s].holders = {t}

\* The classification of §4.6 as the claim words it.
C19_Rule(before, after) ==
  IF before = Absent \/ after = Absent THEN "good"
  ELSE IF /\ before.type = "mate" /\ before.value > 0
          /\ (after.type # "mate" \/ Abs(after.value) > before.value)
       THEN "blunder"
  ELSE LET drop == scoreToNumber(before) - scoreToNumber(after)
       IN  CASE drop >= 150 -> "blunder"
             [] drop >= 80 /\ drop < 150 -> "mistake"
             [] drop >= 30 /\ drop < 80 -> "inaccuracy"
             [] OTHER -> "good"

\* C19: for every pair of scores in range, classify returns 'good' when a
\* score is absent, 'blunder' when a positive mate was lost or delayed, and
\* otherwise grades the drop of the normalized scores at 150, 80 and 30.
C19_Classify ==
  (calc.fn = "classify" /\ calc.out # "none")
  => calc.out = C19_Rule(calc.before, calc.after)

\* A drop of exactly 80 is graded a mistake.
C19_Witness ==
  /\ calc.fn = "classify"
  /\ calc.before = Cp(40) /\ calc.after = Cp(0 - 40)
  /\ calc.out = "mistake"

\* The review passes, and the slots a task holds.
ReviewTasks == {t \in TaskIds : tasks[t].kind = "review"}
HeldBy(t) == {s \in SlotIds : t \in workers[s].holders}

\* C17: a review pass acquires exactly one slot, issues newGame on it once,
\* runs every search on that slot, and releases it exactly once whether the
\* pass completes or a call fails, also when the move list is empty.
C17_ReviewOneSlot ==
  \A t \in ReviewTasks :
    LET rv == review[t]
    IN  /\ Cardinality(HeldBy(t)) <= 1
        /\ tasks[t].pc = "queued" => HeldBy(t) = {} /\ rv.rel = 0 /\ rv.calls = <<>>
        /\ tasks[t].pc \in {"granted", "newGame", "before", "after"}
             => HeldBy(t) = {tasks[t].slot} /\ rv.rel = 0
        /\ tasks[t].pc \in {"done", "failed"}
             => HeldBy(t) = {} /\ rv.rel = 1 /\ Len(rv.calls) >= 1
        /\ tasks[t].pc = "done" /\ rv.moves = <<>> => Len(rv.calls) = 1
        /\ \A i \in 1..Len(rv.calls) :
             /\ ops[rv.calls[i]].slot = tasks[t].slot
             /\ ops[rv.calls[i]].kind = IF i = 1 THEN "newGame" ELSE "analyze"

\* A pass over an empty move list has completed and another pass has failed
\* in a search.
C17_Witness ==
  /\ \E t \in ReviewTasks :
       tasks[t].pc = "done" /\ review[t].moves = <<>> /\ review[t].rel = 1
  /\ \E t \in ReviewTasks :
       tasks[t].pc = "failed" /\ Len(review[t].calls) >= 2 /\ review[t].rel = 1

\* The searches the reported plies of a pass took.
RECURSIVE Searches(_)
Searches(report) ==
  IF report = <<>> THEN 0 ELSE Head(report).searches + Searches(Tail(report))

\* The score seen from the other side, written out.
Negated(score) ==
  IF score = Absent THEN Absent
  ELSE IF score.type = "cp" THEN Cp(0 - score.value) ELSE Mate(0 - score.value)

\* The second search of a ply is one single-line search whose top line,
\* inverted, is scoreAfter.
SecondSearch(e) ==
  e.searches = 2 /\ e.afterMpv = 1 /\ e.scoreAfter = Negated(e.afterTop)

\* The calls of a pass: newGame, the searches of the reported plies and
\* those of the ply in progress.
CallsMatch(t) ==
  LET rv == review[t]
      n  == 1 + Searches(rv.report)
  IN  /\ tasks[t].pc = "done" => Len(rv.calls) = n
      /\ tasks[t].pc = "before" => Len(rv.calls) = n + 1
      /\ tasks[t].pc = "after" => Len(rv.calls) = n + 2

\* C18 as stated: whenever some line of the before-move search starts with
\* the played move, scoreAfter is that line's score and the ply takes no
\* second search; otherwise the ply takes one single-line search of the
\* position after the move and scoreAfter is its inverted top score.
C18_ReuseAnyMatch ==
  \A t \in ReviewTasks :
    \A i \in 1..Len(review[t].report) :
      LET e == review[t].report[i]
      IN  IF e.hit # "none"
          THEN e.searches = 1 /\ e.scoreAfter = e.hitScore
          ELSE SecondSearch(e)

\* C18, amended: the score of the first line that starts with the played
\* move is reused, without a second search, only when that line carries a
\* score; when no line starts with the played move or that line carries no
\* score, the ply takes exactly one additional single-line search and
\* scoreAfter is the inverted score of its top line.
C18_ReuseScoredMatch ==
  \A t \in ReviewTasks :
    /\ CallsMatch(t)
    /\ tasks[t].pc = "after" => review[t].pending.hit # "scored"
    /\ \A i \in 1..Len(review[t].report) :
         LET e == review[t].report[i]
         IN  IF e.hit = "scored"
             THEN e.searches = 1 /\ e.scoreAfter = e.hitScore
                  /\ e.hitScore # Absent
             ELSE SecondSearch(e)

\* A pass has reported a ply whose before-move search gave a line starting
\* with the played move but without a score, and whose second search gave
\* a scored top line.
C18_Witness ==
  \E t \in ReviewTasks : \E i \in 1..Len(review[t].report) :
    /\ review[t].report[i].hit = "unscored"
    /\ review[t].report[i].searches = 2
    /\ review[t].report[i].afterTop # Absent

Classifications == {"good", "inaccuracy", "mistake", "blunder"}

\* C20: a review returns exactly one PlyReport per move of the game, in
\* move order, each carrying the move played and a classification; the
\* report of an empty move list is empty.  Until it returns, the report
\* holds the reports of the first plies, in order.
C20_OneReportPerMove ==
  \A t \in ReviewTasks :
    LET rv == review[t]
    IN  /\ Len(rv.report) <= Len(rv.moves)
        /\ tasks[t].pc = "done" => Len(rv.report) = Len(rv.moves)
        /\ \A i \in 1..Len(rv.report) :
             /\ rv.report[i].ply = i
             /\ rv.report[i].played = rv.moves[i]
             /\ rv.report[i].classification \in Classifications

\* A review of a game of two plies or more has returned.
C20_Witness ==
  \E t \in ReviewTasks :
    tasks[t].pc = "done" /\ Len(review[t].moves) >= 2

\* C21: the first command written to a subprocess the driver spawns is the
\* handshake command: the step that spawns a subprocess writes uci to it or
\* writes nothing.
C21_HandshakeFirst ==
  [][\A s \in SlotIds :
       (~workers[s].child /\ workers'[s].child)
       => \/ workers'[s].lastWrite.cmd = "uci"
          \/ workers'[s].lastWrite = workers[s].lastWrite]_vars

\* C22: disposed is terminal: once dispose has run, no driver of the pool
\* has a subprocess again.
C22_DisposedTerminal ==
  env.phase = "disposed" => \A s \in SlotIds : ~workers[s].child

\* The progress lines a search received, and the rank a line counts for.
Progress == SelectSeq(calc.seen, LAMBDA l : l.kind = "info")
RankOf(line) == IF line.multipv = 0 THEN 1 ELSE line.multipv
Ranks == {RankOf(Progress[i]) : i \in 1..Len(Progress)}

\* The last progress line received for rank r.
LastFor(r) ==
  LET at == {i \in 1..Len(Progress) : RankOf(Progress[i]) = r}
  IN  Progress[CHOOSE i \in at : \A j \in at : j <= i]

\* C23: the result of a completed analyze holds, for each rank reported
\* during the search, exactly one LineEvaluation, the one of the last
\* progress line received for that rank (a line without a rank counts for
\* rank 1), by ascending rank; best move and ponder are those of the
\* best-move line.
C23_LastPerRank ==
  (calc.fn = "analyze" /\ calc.done) =>
    LET res  == calc.res
        best == calc.seen[Len(calc.seen)]
    IN  /\ Len(res.lines) = Cardinality(Ranks)
        /\ {res.lines[k].multipv : k \in 1..Len(res.lines)} = Ranks
        /\ \A k \in 1..Len(res.lines) :
             LET l == LastFor(res.lines[k].multipv)
             IN  /\ res.lines[k].depth = l.depth
                 /\ res.lines[k].pv0 = l.pv0
                 /\ res.lines[k].score = l.score
        /\ \A j \in 1..Len(res.lines), k \in 1..Len(res.lines) :
             j < k => res.lines[j].multipv < res.lines[k].multipv
        /\ best.kind = "bestmove"
        /\ res.bestmove = best.bestmove
        /\ res.ponder = best.ponder

\* A search completed after a line for rank 2, then two lines for rank 1 of
\* which the later carries no rank.
C23_Witness ==
  /\ calc.fn = "analyze"
  /\ calc.done
  /\ Len(Progress) >= 3
  /\ Progress[1].multipv = 2
  /\ Progress[2].multipv = 1
  /\ Progress[3].multipv = 0
  /\ Progress[3].score # Progress[2].score

\* Call id reaches its function in this step, straight from runExclusive,
\* on a driver whose subprocess is alive.
CalledOnLive(id) ==
  /\ ops[id].pc \in {"unused", "awaitPrev"}
  /\ ops'[id].pc \notin {"unused", "awaitPrev"}
  /\ ~ops'[id].inherited
  /\ workers[ops'[id].slot].child

\* C24: an analyze called with its signal already aborted on a driver whose
\* subprocess is alive fails with the aborted error in the same step and
\* leaves the driver as it was: no command written, no listener or timer
\* added, multi-PV unchanged.
C24_AbortedBeforeStart ==
  [][\A id \in OpIds :
       (/\ ops'[id].kind = "analyze"
        /\ ops'[id].sig = "aborted"
        /\ CalledOnLive(id))
       => /\ ops'[id].pc = "failed"
          /\ ops'[id].err = "Aborted"
          /\ workers'[ops'[id].slot] = workers[ops'[id].slot]]_vars

\* An analyze whose multi-PV differs from the driver's was called with an
\* aborted signal on a live driver and has failed with the aborted error.
C24_Witness ==
  \E id \in OpIds :
    /\ ops[id].kind = "analyze"
    /\ ops[id].sig = "aborted"
    /\ ops[id].abortedAt = "none"
    /\ ops[id].pc = "failed"
    /\ ops[id].err = "Aborted"
    /\ ops[id].mpv # workers[ops[id].slot].currentMultiPv
    /\ workers[ops[id].slot].child
    /\ env.exits = 0

\* Caller t holds a slot; caller t waits in the queue.
Holds(t) == \E s \in SlotIds : t \in workers[s].holders
Waits(t) == tasks[t].pc = "queued"

\* C25: if every caller that holds a slot eventually releases it, every
\* acquire that waits in the queue is eventually resolved with a slot.
C25_WaitersServed ==
  (\A t \in TaskIds : Holds(t) ~> ~Holds(t))
  => (\A t \in TaskIds : Waits(t) ~> Holds(t))

\* Two callers wait behind the holder of the only slot.
C25_Witness ==
  /\ pool.size = 1
  /\ Len(queue) = 2
  /\ \E t \in TaskIds : Holds(t)

\* C26: every mate score favoring the mover, whatever its distance,
\* normalizes strictly above every centipawn score of at most CpLimit.
C26_MateAboveCp ==
  (/\ calc.fn = "scores" /\ calc.normalized
   /\ calc.a.type = "mate" /\ calc.a.value > 0
   /\ calc.b.type = "cp" /\ calc.b.value <= CpLimit)
  => calc.na > calc.nb

\* C27: of two mate scores favoring the mover, the one with the shorter
\* distance normalizes strictly above the other.
C27_ShorterMateAbove ==
  (/\ calc.fn = "scores" /\ calc.normalized
   /\ calc.a.type = "mate" /\ calc.b.type = "mate"
   /\ 0 < calc.a.value /\ calc.a.value < calc.b.value)
  => calc.na > calc.nb

\* A mate in one and a mate at the far end of the range were normalized.
C27_Witness ==
  /\ calc.fn = "scores" /\ calc.normalized
  /\ calc.a = Mate(1) /\ calc.b = Mate(MaxDistance)

\* C28: inverting a centipawn or mate score twice gives the score back,
\* kind and value.
C28_InvertTwice ==
  (calc.fn = "scores" /\ calc.inverted) => calc.inv2 = calc.a

\* A mate score against the mover was inverted, and inverted back.
C28_Witness ==
  /\ calc.fn = "scores" /\ calc.inverted
  /\ calc.a.type = "mate" /\ calc.a.value < 0
  /\ calc.inv.value > 0

\* Failures of the engine infrastructure: a handshake or readiness wait or a
\* search timed out.
Infrastructure == {"ReadyTimeout", "SearchTimeout"}

\* C29: a failure caused by the engine infrastructure is answered with a
\* 5xx status, every other error with a 4xx status.
C29_StatusByKind ==
  (reply.call = "http" /\ reply.arg # "none") =>
    IF reply.arg \in Infrastructure
    THEN reply.err \in {"500", "503"}
    ELSE reply.err \in {"400", "404", "409", "422"}

\* The search of call id gets its best-move line in this step.
GotBestMove(id) ==
  /\ ops[id].pc = "search"
  /\ ops'[id].pc # "search"
  /\ (ops'[id].pc = "done" \/ ops'[id].saved = "ok")

\* C30: the best-move line a search resolves with answers its own go: when
\* a search gets its best-move line, the engine owes no further best-move
\* line, so the line it got is not one left over from an earlier search.
C30_OwnBestMove ==
  [][\A id \in OpIds :
       GotBestMove(id) =>
         \A i \in 1..Len(workers'[ops[id].slot].owed) :
           workers'[ops[id].slot].owed[i] # "bestmove"]_vars

\* The callers that were granted a slot and have called the pool, and the
\* first call each of them made.
Holders == {t \in TaskIds : review[t].calls # <<>>}
FirstCall(t) == review[t].calls[1]

\* C31: the first call a holder makes on its slot is newGame; the holder
\* submits a search only once that newGame has returned; and the newGame is
\* chained behind every call of the holders that had the slot before, so it
\* executes only after those have settled.
C31_NewGameFirst ==
  \A t \in Holders :
    LET n == FirstCall(t)
    IN  /\ ops[n].kind = "newGame"
        /\ ops[n].slot = tasks[t].slot
        /\ \A i \in 2..Len(review[t].calls) :
             /\ ops[review[t].calls[i]].kind = "analyze"
             /\ ops[review[t].calls[i]].slot = ops[n].slot
             /\ ops[n].pc = "done"
        /\ \A u \in Holders :
             (/\ ops[FirstCall(u)].slot = ops[n].slot
              /\ ChainIndex(FirstCall(u)) < ChainIndex(n))
             => \A i \in 1..Len(review[u].calls) :
                  /\ ChainIndex(review[u].calls[i]) < ChainIndex(n)
                  /\ Started(n) => Settled(review[u].calls[i])

\* The newGame of a new holder waits behind a search of the session that
\* had the slot before and has been ended.
C31_Witness ==
  \E t \in Holders, u \in Holders :
    /\ t # u
    /\ ops[FirstCall(t)].slot = ops[FirstCall(u)].slot
    /\ ops[FirstCall(t)].pc = "awaitPrev"
    /\ Len(review[u].calls) = 2
    /\ Executing(review[u].calls[2])

\* A startGame, review pass or stateless analysis that has been granted slot
\* s and has neither returned nor thrown.
InProgress(t, s) ==
  /\ tasks[t].kind \in {"startGame", "review", "stateless"}
  /\ tasks[t].pc \notin {"queued", "done", "failed"}
  /\ tasks[t].slot = s
  /\ t \in workers[s].holders

\* C32: every allocated slot is the workerId of a registered session or is
\* held by a startGame, review pass or stateless analysis in progress.
C32_NoLeak ==
  \A s \in Slots :
    workers[s].allocated
    => \/ \E g \in DOMAIN games : games[g].workerId = s
       \/ \E t \in TaskIds : InProgress(t, s)

\* C33: an operation that is queued or executing on a slot was submitted by
\* the caller that holds the slot now: when a holder has released its slot,
\* every operation it submitted on it has settled.
C33_NoForeignOperation ==
  \A t \in Holders :
    \A i \in 1..Len(review[t].calls) :
      LET id == review[t].calls[i]
      IN  ~Settled(id) => t \in workers[ops[id].slot].holders

\* C34: no two registered sessions are bound to the same slot id.
C34_DistinctSlots ==
  \A g \in DOMAIN games, h \in DOMAIN games :
    g # h => games[g].workerId # games[h].workerId

\* Two sessions are registered, and one of them is on a slot that an ended
\* session had before.
C34_Witness ==
  /\ Cardinality(DOMAIN games) = 2
  /\ \E g \in DOMAIN games, t \in TaskIds :
       /\ tasks[t].kind = "startGame" /\ tasks[t].pc = "done"
       /\ games[g].owner # t
       /\ tasks[t].slot = games[g].workerId
       /\ \A h \in DOMAIN games : games[h].owner # t

\* C35: whenever an acquire waits in the pool's queue, every slot is
\* allocated.
C35_WaitersMeanFull ==
  queue # <<>> => \A s \in Slots : workers[s].allocated

\* A release handed its slot to the first waiter while another still waits.
C35_Witness ==
  /\ queue # <<>>
  /\ \E t \in TaskIds, u \in TaskIds :
       /\ t # u
       /\ tasks[t].pc \in {"done", "failed"}
       /\ workers[tasks[t].slot].holders = {u}
       /\ tasks[u].ticket > pool.size

\* The calls made on the slot of call id before it.
Before(id) ==
  {locks[ops[id].slot][k] : k \in 1..(ChainIndex(id) - 1)}

\* C36: operations on different slots do not wait for each other and do not
\* fail for each other: a call fails without having run only with the error
\* of a failed call made before it on its own slot, and a call whose
\* predecessors on its own slot have all settled goes on, whatever is in
\* flight on the other slots.
C36_SlotsIndependent ==
  \A id \in OpIds :
    ops[id].kind # "none" =>
      /\ ops[id].inherited
           => \E b \in Before(id) :
                ops[b].pc = "failed" /\ ops[b].err = ops[id].err
      /\ (ops[id].pc = "awaitPrev" /\ \A b \in Before(id) : Settled(b))
           => ENABLED Resume(id)

\* A call failed on one slot and the call behind it failed with its error,
\* while a call made later on another slot is executing.
C36_Witness ==
  \E a \in OpIds, b \in OpIds, c \in OpIds :
    /\ ops[a].kind # "none" /\ ops[b].kind # "none" /\ ops[c].kind # "none"
    /\ ops[a].slot = ops[c].slot
    /\ ops[b].slot # ops[a].slot
    /\ ops[a].pc = "failed" /\ ~ops[a].inherited
    /\ ops[c].inherited
    /\ b > a
    /\ Executing(b)

\* C37: an initialization that returns has created min(c, 8) slots, where c
\* is the configured size when there is one and max(1, floor(cores / 2))
\* otherwise; the slots have the ids 0, 1, ... in order and are unallocated,
\* and nothing is added or removed once init has returned.
C37_PoolSize ==
  calc.fn = "init" =>
    LET c == IF calc.cfg.given THEN calc.cfg.value
             ELSE IF calc.cpuCount \div 2 >= 1 THEN calc.cpuCount \div 2 ELSE 1
    IN  /\ calc.pc = "ready"
          => Len(calc.workers) = (IF c <= 8 THEN c ELSE 8)
        /\ \A i \in 1..Len(calc.workers) :
             calc.workers[i].id = i - 1 /\ ~calc.workers[i].allocated

\* Init returned with a configured size above the cap, and with more cores
\* than twice the cap and no configured size.
C37_Witness ==
  /\ calc.fn = "init"
  /\ calc.pc = "ready"
  /\ \/ calc.cfg.given /\ calc.cfg.value > SizeCap
     \/ ~calc.cfg.given /\ calc.cpuCount \div 2 > SizeCap
  /\ Len(calc.workers) = SizeCap

\* C38: for every centipawn or mate score, value 0 included, the inverted
\* score normalizes to the negation of what the score normalizes to.
C38_InvertNegates ==
  (calc.fn = "scores" /\ calc.normalized /\ calc.inverted)
  => calc.ninv = 0 - calc.na

\* C39: a ply whose played move is the first move of the top line of the
\* before-move search is reported as 'good', whatever the scores of the
\* lines.
C39_TopMoveGood ==
  \A t \in ReviewTasks :
    \A i \in 1..Len(review[t].report) :
      review[t].report[i].top = review[t].report[i].played
      => review[t].report[i].classification = "good"

\* The played move headed the top line, whose score was a mate for the
\* mover and was reused as the score after the move.
C39_Witness ==
  \E t \in ReviewTasks :
    /\ Len(review[t].report) = 1
    /\ review[t].report[1].top = review[t].report[1].played
    /\ review[t].report[1].scoreBefore = Mate(1)
    /\ review[t].report[1].scoreAfter = Mate(1)
    /\ review[t].report[1].searches = 1

\* An operation is in flight on the driver of slot s: a call of the pool
\* that has started and not settled, or the init of the pool on that slot.
InFlight(s) ==
  \E id \in 0..MaxOps :
    /\ ops[id].kind # "none"
    /\ ops[id].slot = s
    /\ ops[id].pc \notin {"unused", "idle", "awaitPrev", "done", "failed"}

\* C40: whenever no operation is in flight on a driver, its list of line
\* listeners is empty and no wait timer is armed.
C40_NoListenerLeft ==
  \A s \in SlotIds :
    ~InFlight(s) =>
      /\ workers[s].lineListeners = <<>>
      /\ workers[s].timers = {}

\* A search was aborted while it was running, its abort handler wrote stop,
\* and the call has settled with nothing else in flight on its driver.
C40_Witness ==
  \E id \in OpIds :
    /\ ops[id].kind = "analyze"
    /\ ops[id].pc = "failed"
    /\ ops[id].err = "Aborted"
    /\ ops[id].abortedAt = "search"
    /\ ops[id].stopW
    /\ ~InFlight(ops[id].slot)

====
